---------------------------- MODULE Spec2Model ----------------------------
(***************************************************************************)
(* State-machine model of skiff-transport-msgpack (src/lib/index.js).      *)
(*                                                                         *)
(* Two independent programs are modelled:                                  *)
(*   - the Listener built by listen(port, hostname, server, callback):     *)
(*     a net.Server with the __connections pool, the once-wrapped user     *)
(*     callback and the proxied close();                                   *)
(*   - the Connector built by connect(remoteMethods, hostname, port):      *)
(*     the EventEmitter handle `ee` driven by the reconnect-net emitter r, *)
(*     with the client proxies it hands out and the calls made on them.    *)
(* Both pipe an rpc stream and two msgpack codec streams to every socket.  *)
(*                                                                         *)
(* Events of the Node runtime (server 'error' / 'listening' / 'close',     *)
(* socket 'connect' / 'close' / 'error', the backoff timer) are the        *)
(* environment: each is one action that runs the handlers index.js has     *)
(* registered for it, to completion, as the single-threaded event loop     *)
(* does.  A socket counts as open from the event that hands it to the      *)
(* program until its 'close' (or 'error') event is delivered.              *)
(***************************************************************************)
EXTENDS Integers, Sequences, FiniteSets

\* ------------------------------------------------------------------ bounds
\* Number of inbound connections the Listener may accept in one run.
MaxConns == 2
\* Number of close() calls made on the Listener handle in one run.
MaxCloseCalls == 2
\* Number of connection attempts the reconnect loop may start in one run.
MaxAttempts == 3
\* Number of disconnect() calls made on the Connector handle in one run.
MaxDisconnectCalls == 2
\* Number of method calls made on the Connector's client proxies in one run.
MaxCalls == 2

Conns == 1..MaxConns
Attempts == 1..MaxAttempts

VARIABLES
    \* ---- Listener (listen, lines 73-130)
    bindState,        \* "pending" | "failed" | "listening": outcome of the bind so far
    handleOpen,       \* the listening socket is accepting connections
    errListener,      \* netServer.once('error', callback) is still armed
    called,           \* the once() wrapper's `called` flag
    cbCalls,          \* invocations of the user callback: sequence of argument lists
    pool,             \* netServer.__connections
    sock,             \* per accepted connection: "none" | "open" | "closed" | "errored"
    closeHandler,     \* con.once('close', rpcConnectionClosed) is still armed
    endCalls,         \* per connection: number of con.end() calls made by close()
    closeCalls,       \* number of close() calls made so far
    closeCbPending,   \* close callbacks waiting for the server's 'close' event
    closeCbFired,     \* close callbacks that have fired
    closeEmitPending, \* a server 'close' emission is due once the server has drained
    srvCloseReported, \* the server has emitted 'close'
    crashed,          \* an 'error' event found no listener: uncaught exception
    wiring,           \* per accepted connection: the rpc service and the codec
                      \* streams piped to it, [mux, decode, encode]
    stagesEnded,      \* per accepted connection: the piped streams have ended
    \* ---- Connector (connect, lines 23-61)
    r,                \* the reconnect emitter: [reconnect, connected]
    conState,         \* per attempt's socket: "unused" | "connecting" | "open" |
                      \* "failed" (lost before it connected) | "closed" (lost after)
    conEnded,         \* per attempt's socket: end() was called on it by r.disconnect()
    nAttempts,        \* attempts started so far; r._connection is socket nAttempts
    backoffArmed,     \* the backoff timer is running and will fire 'ready'
    ee,               \* the handle: [connected, client, emitted]
    disconnectCalls,  \* number of disconnect() calls made so far
    remoteMethods,    \* the method names connect() was given
    conWiring,        \* per attempt's socket: the rpc stream and the codec streams
                      \* piped to it, [mux, decode, encode]
    requests          \* method calls made on client proxies: sequence of
                      \* [proxy, connected, delivered, state]

listenerVars == <<bindState, handleOpen, errListener, called, cbCalls, pool, sock,
                  closeHandler, endCalls, closeCalls, closeCbPending, closeCbFired,
                  closeEmitPending, srvCloseReported, crashed, wiring, stagesEnded>>

connectorVars == <<r, conState, conEnded, nAttempts, backoffArmed, ee, disconnectCalls,
                   remoteMethods, conWiring, requests>>

vars == <<listenerVars, connectorVars>>

\* ================================================================== wiring

\* Mutant of rpc: one rpc stream, created once, serves every connection.
rpcShared(con) == 1

\* rpc(...), MsgPack.createDecodeStream() and MsgPack.createEncodeStream() return
\* a new object on every call.  The object a handler run creates for connection
\* con is named con within its kind; 0 names no object.
rpc(con) == con

createDecodeStream(con) == con

createEncodeStream(con) == con

\* A connection nothing has been piped to.
NoWiring == [mux |-> 0, decode |-> 0, encode |-> 0]

\* The streams a handler run creates and pipes to connection con, lines 28-30
\* and 91-93.
Wire(con) == [mux |-> rpc(con),
              decode |-> createDecodeStream(con),
              encode |-> createEncodeStream(con)]

\* ================================================================ Listener

\* Array.prototype.indexOf: the 0-based index of the first x in s, or -1.
IndexOf(s, x) ==
    IF \E i \in 1..Len(s) : s[i] = x
    THEN (CHOOSE i \in 1..Len(s) : s[i] = x /\ \A j \in 1..(i-1) : s[j] # x) - 1
    ELSE -1

\* Array.prototype.splice(idx, 1): removes the element at 0-based idx; a negative
\* idx counts from the end of the array, an idx past the end removes nothing.
Splice1(s, idx) ==
    LET start == IF idx < 0
                 THEN (IF Len(s) + idx < 0 THEN 0 ELSE Len(s) + idx)
                 ELSE (IF idx > Len(s) THEN Len(s) ELSE idx)
    IN  IF start >= Len(s) THEN s
        ELSE [i \in 1..(Len(s) - 1) |-> IF i <= start THEN s[i] ELSE s[i + 1]]

\* The elements of an array, as a set.
Members(s) == {s[i] : i \in 1..Len(s)}

\* How many times x occurs in an array.
Occurrences(s, x) == Cardinality({i \in 1..Len(s) : s[i] = x})

\* netServer.__connections.push(con), line 89.
PoolPush(p, c) == Append(p, c)

\* Mutant of rpcConnectionClosed: the splice is done without the idx >= 0 test.
rpcConnectionClosedUnguarded(p, c) == Splice1(p, IndexOf(p, c))

\* The close listener of one connection, lines 95-100.
rpcConnectionClosed(p, c) ==
    LET idx == IndexOf(p, c)
    IN  IF idx >= 0 THEN Splice1(p, idx) ELSE p

\* Mutant of OnceInvoke: the wrapper forgets its `called` flag and calls through
\* every time.
OnceInvokeAlways(isCalled, calls, args) == Append(calls, args)

\* once(callback), line 77: the wrapper calls through only while its `called`
\* flag is unset.  Returns the user callback's invocations after a call with args.
OnceInvoke(isCalled, calls, args) ==
    IF isCalled THEN calls ELSE Append(calls, args)

\* The i-th argument a callback invocation received ("undefined" when not passed).
Arg(args, i) == IF i <= Len(args) THEN args[i] ELSE "undefined"

\* The argument list onceListening passes to the callback, line 109: callback().
ListeningArgs == <<>>

\* The argument list the 'error' event passes to the callback, line 115.
ErrorArgs == <<"error">>

\* Mutant of closeOpenedConnections: the loop over the pool ends nothing.
closeOpenedConnectionsSkip(ends, p) == ends

\* con.end() on every pooled connection, lines 124-126: the end() count of each
\* connection grows by its number of entries in the array.
closeOpenedConnections(ends, p) ==
    [c \in Conns |-> ends[c] + Occurrences(p, c)]

ListenerInit ==
    /\ bindState = "pending"
    /\ handleOpen = FALSE
    /\ errListener = TRUE
    /\ called = FALSE
    /\ cbCalls = <<>>
    /\ pool = <<>>
    /\ sock = [c \in Conns |-> "none"]
    /\ closeHandler = [c \in Conns |-> FALSE]
    /\ endCalls = [c \in Conns |-> 0]
    /\ closeCalls = 0
    /\ closeCbPending = 0
    /\ closeCbFired = 0
    /\ closeEmitPending = FALSE
    /\ srvCloseReported = FALSE
    /\ crashed = FALSE
    /\ wiring = [c \in Conns |-> NoWiring]
    /\ stagesEnded = [c \in Conns |-> FALSE]

\* The server emits 'error' (a failed bind, a failed retry of listen(), or a later
\* server fault).  The once-'error' listener registered at line 115 is the
\* once-wrapped callback; with no listener left the event is an uncaught exception.
ServerError ==
    /\ UNCHANGED connectorVars
    /\ ~crashed
    /\ closeCalls = 0
    /\ bindState' = IF bindState = "pending" THEN "failed" ELSE bindState
    /\ handleOpen' = FALSE
    /\ IF errListener
       THEN /\ errListener' = FALSE
            /\ cbCalls' = OnceInvoke(called, cbCalls, ErrorArgs)
            /\ called' = TRUE
            /\ crashed' = FALSE
       ELSE /\ crashed' = TRUE
            /\ UNCHANGED <<errListener, cbCalls, called>>
    /\ UNCHANGED <<pool, sock, closeHandler, endCalls, closeCalls, closeCbPending,
                   closeCbFired, closeEmitPending, srvCloseReported, wiring,
                   stagesEnded>>

\* The server emits 'listening' (the bind of line 114 succeeded, or a listen()
\* retried on the returned handle after a failed bind did): onceListening,
\* lines 107-110.
onceListening ==
    /\ UNCHANGED connectorVars
    /\ ~crashed
    /\ closeCalls = 0
    /\ bindState \in {"pending", "failed"}
    /\ bindState' = "listening"
    /\ handleOpen' = TRUE
    /\ errListener' = FALSE
    /\ cbCalls' = OnceInvoke(called, cbCalls, ListeningArgs)
    /\ called' = TRUE
    /\ UNCHANGED <<pool, sock, closeHandler, endCalls, closeCalls, closeCbPending,
                   closeCbFired, closeEmitPending, srvCloseReported, crashed, wiring,
                   stagesEnded>>

\* The server accepts an inbound connection: onConnection, lines 88-101.
onConnection(c) ==
    /\ UNCHANGED connectorVars
    /\ ~crashed
    /\ handleOpen
    /\ sock[c] = "none"
    /\ \A d \in Conns : d < c => sock[d] # "none"
    /\ pool' = PoolPush(pool, c)
    /\ sock' = [sock EXCEPT ![c] = "open"]
    /\ wiring' = [wiring EXCEPT ![c] = Wire(c)]
    /\ closeHandler' = [closeHandler EXCEPT ![c] = TRUE]
    /\ UNCHANGED <<bindState, handleOpen, errListener, called, cbCalls, endCalls,
                   closeCalls, closeCbPending, closeCbFired, closeEmitPending,
                   srvCloseReported, crashed, stagesEnded>>

\* An accepted socket emits 'end' and 'close' (the peer closed it, or answered our
\* end()): the pipes of lines 92-93 pass the end on, so the decode stream, the
\* service and the encode stream end, and the once-'close' listener of
\* lines 95-100 runs.
SocketClose(c) ==
    /\ UNCHANGED connectorVars
    /\ ~crashed
    /\ sock[c] = "open"
    /\ sock' = [sock EXCEPT ![c] = "closed"]
    /\ pool' = IF closeHandler[c] THEN rpcConnectionClosed(pool, c) ELSE pool
    /\ closeHandler' = [closeHandler EXCEPT ![c] = FALSE]
    /\ stagesEnded' = [stagesEnded EXCEPT ![c] = TRUE]
    /\ UNCHANGED <<bindState, handleOpen, errListener, called, cbCalls, endCalls,
                   closeCalls, closeCbPending, closeCbFired, closeEmitPending,
                   srvCloseReported, crashed, wiring>>

\* An accepted socket emits 'error' (e.g. a connection reset).  onConnection
\* registers no 'error' listener on con, and the pipe into con rethrows when it is
\* the only listener: the event is an uncaught exception.
SocketError(c) ==
    /\ UNCHANGED connectorVars
    /\ ~crashed
    /\ sock[c] = "open"
    /\ sock' = [sock EXCEPT ![c] = "errored"]
    /\ crashed' = TRUE
    /\ UNCHANGED <<bindState, handleOpen, errListener, called, cbCalls, pool,
                   closeHandler, endCalls, closeCalls, closeCbPending, closeCbFired,
                   closeEmitPending, srvCloseReported, wiring, stagesEnded>>

\* The part of the Listener's state that close() reads and writes.
LState == [handleOpen |-> handleOpen, pool |-> pool, sock |-> sock,
           endCalls |-> endCalls, closeCbPending |-> closeCbPending,
           closeEmitPending |-> closeEmitPending]

\* Mutant of close: while ending the pooled connections it also drops the first
\* one from the array.
closeDropsHead(st, withCb) ==
    [st EXCEPT !.handleOpen = FALSE,
               !.closeCbPending = IF withCb THEN @ + 1 ELSE @,
               !.closeEmitPending = TRUE,
               !.endCalls = closeOpenedConnections(st.endCalls, st.pool),
               !.pool = IF @ = <<>> THEN @ ELSE Tail(@)]

\* netServer.close(cb), lines 122-127: the original close (stop accepting, register
\* cb for the server's 'close' event, which is emitted once every connection has
\* closed), then end() on every pooled connection.
close(st, withCb) ==
    [st EXCEPT !.handleOpen = FALSE,
               !.closeCbPending = IF withCb THEN @ + 1 ELSE @,
               !.closeEmitPending = TRUE,
               !.endCalls = closeOpenedConnections(st.endCalls, st.pool)]

\* A call of close() on the handle listen() returned.
Close(withCb) ==
    /\ UNCHANGED connectorVars
    /\ ~crashed
    /\ closeCalls < MaxCloseCalls
    /\ closeCalls' = closeCalls + 1
    /\ LET n == close(LState, withCb)
       IN  /\ handleOpen' = n.handleOpen
           /\ pool' = n.pool
           /\ sock' = n.sock
           /\ endCalls' = n.endCalls
           /\ closeCbPending' = n.closeCbPending
           /\ closeEmitPending' = n.closeEmitPending
    /\ UNCHANGED <<bindState, errListener, called, cbCalls, closeHandler,
                   closeCbFired, srvCloseReported, crashed, wiring, stagesEnded>>

\* The server emits 'close': its handle is closed and every accepted connection
\* has closed.  The callbacks handed to close() fire.
ServerClose ==
    /\ UNCHANGED connectorVars
    /\ ~crashed
    /\ closeEmitPending
    /\ ~handleOpen
    /\ \A c \in Conns : sock[c] # "open"
    /\ closeEmitPending' = FALSE
    /\ srvCloseReported' = TRUE
    /\ closeCbFired' = closeCbFired + closeCbPending
    /\ closeCbPending' = 0
    /\ UNCHANGED <<bindState, handleOpen, errListener, called, cbCalls, pool, sock,
                   closeHandler, endCalls, closeCalls, crashed, wiring, stagesEnded>>

ListenerNext ==
    \/ ServerError
    \/ onceListening
    \/ \E c \in Conns : onConnection(c)
    \/ \E c \in Conns : SocketClose(c)
    \/ \E c \in Conns : SocketError(c)
    \/ \E withCb \in BOOLEAN : Close(withCb)
    \/ ServerClose

\* =============================================================== Connector

\* ee.client before the first connection: the field is not set (undefined).
NoClient == 0

\* The argument lists connect() is called with: no method name at all, and the
\* two names of the README's example.
RemoteMethodSets == {<<>>, <<"ping", "pong">>}

\* A notification emitted on handle h: its name, its payload (NoClient when the
\* emit call passes no argument), and the connected flag and the client field
\* of h as a listener reads them while the notification is delivered.
Notification(name, payload, h) ==
    [ev |-> name, payload |-> payload, connected |-> h.connected, client |-> h.client]

\* ee.emit(name, payload): listeners run synchronously, inside the call.
Emit(h, name, payload) ==
    [h EXCEPT !.emitted = Append(@, Notification(name, payload, h))]

\* Notifications named `name` in a notification log.
NumEv(emitted, name) ==
    Cardinality({i \in 1..Len(emitted) : emitted[i].ev = name})

\* remote.wrap(remoteMethods), line 32: a new proxy object with one function per
\* name, each sending through `remote`; the proxy is named after its rpc stream.
wrap(remote) == remote

\* Mutant of onConnect: only the first connection is announced with 'connect';
\* a later one is announced with 'reconnect' carrying the new client.
onConnectReconnectLater(h, con) ==
    LET client == wrap(rpc(con))
    IN  Emit([h EXCEPT !.connected = TRUE, !.client = client],
             IF NumEv(h.emitted, "connect") = 0 THEN "connect" ELSE "reconnect",
             client)

\* Mutant of onConnect: 'connect' is emitted before the flag and the client are
\* stored.
onConnectEmitFirst(h, con) ==
    LET client == wrap(rpc(con))
    IN  [Emit(h, "connect", client) EXCEPT !.connected = TRUE, !.client = client]

\* onConnect(con), lines 27-37: a new rpc stream is piped to con and a new client
\* proxy is wrapped from it, then the flag and the client are stored and
\* 'connect' is emitted with the client.
onConnect(h, con) ==
    LET remote == rpc(con)
        client == wrap(remote)
    IN  Emit([h EXCEPT !.connected = TRUE, !.client = client], "connect", client)

\* onReconnect(), lines 39-41: forwards r's 'reconnect' with no argument.
onReconnect(h) == Emit(h, "reconnect", NoClient)

\* Mutant of onDisconnect: the notification is emitted but the flag is kept.
onDisconnectKeepsFlag(h) == Emit(h, "disconnect", NoClient)

\* Mutant of onDisconnect: the flag is cleared but nothing is emitted.
onDisconnectSilent(h) == [h EXCEPT !.connected = FALSE]

\* onDisconnect(), lines 43-46.
onDisconnect(h) == Emit([h EXCEPT !.connected = FALSE], "disconnect", NoClient)

\* r emits 'reconnect' when an attempt starts; it reaches the handle only once
\* r.on('reconnect', onReconnect) of line 57 has run.
EmitReconnect(h, registered) == IF registered THEN onReconnect(h) ELSE h

\* The state after connect(methods, hostname, port) has returned, lines 23-60:
\* whatever the arguments, r.connect() has started the first attempt (before any
\* listener was registered on r) and the handle has connected = false and no
\* client.
connect(methods) ==
    /\ remoteMethods = methods
    /\ r = [reconnect |-> TRUE, connected |-> FALSE]
    /\ conState = [c \in Attempts |-> IF c = 1 THEN "connecting" ELSE "unused"]
    /\ conEnded = [c \in Attempts |-> FALSE]
    /\ nAttempts = 1
    /\ backoffArmed = FALSE
    /\ ee = EmitReconnect([connected |-> FALSE, client |-> NoClient, emitted |-> <<>>],
                          FALSE)
    /\ disconnectCalls = 0
    /\ conWiring = [c \in Attempts |-> NoWiring]
    /\ requests = <<>>

ConnectorInit == \E methods \in RemoteMethodSets : connect(methods)

\* The socket of the current attempt emits 'connect': r marks itself connected
\* and emits 'connect' with the socket, which runs onConnect (line 56).
SocketConnect ==
    /\ UNCHANGED listenerVars
    /\ conState[nAttempts] = "connecting"
    /\ conState' = [conState EXCEPT ![nAttempts] = "open"]
    /\ r' = [r EXCEPT !.connected = TRUE]
    /\ conWiring' = [conWiring EXCEPT ![nAttempts] = Wire(nAttempts)]
    /\ ee' = onConnect(ee, nAttempts)
    /\ UNCHANGED <<conEnded, nAttempts, backoffArmed, disconnectCalls, remoteMethods,
                   requests>>

\* The socket of the current attempt is lost (the first of its 'error', 'end' and
\* 'close' events, whether or not it ever connected): r clears its flag, emits
\* 'disconnect', which runs onDisconnect (line 58), and starts the backoff timer
\* unless disconnect() was requested.
SocketLost ==
    /\ UNCHANGED listenerVars
    /\ conState[nAttempts] \in {"connecting", "open"}
    /\ conState' = [conState EXCEPT
                      ![nAttempts] = IF @ = "open" THEN "closed" ELSE "failed"]
    /\ r' = [r EXCEPT !.connected = FALSE]
    /\ ee' = onDisconnect(ee)
    /\ backoffArmed' = r.reconnect
    /\ UNCHANGED <<conEnded, nAttempts, disconnectCalls, remoteMethods, conWiring,
                   requests>>

\* The backoff timer fires: r starts the next attempt unless it is connected or
\* disconnect() was requested; the attempt emits 'reconnect' (line 57) and opens
\* a new socket.
BackoffReady ==
    /\ UNCHANGED listenerVars
    /\ backoffArmed
    /\ backoffArmed' = FALSE
    /\ IF r.connected \/ ~r.reconnect
       THEN UNCHANGED <<conState, nAttempts, ee>>
       ELSE /\ nAttempts < MaxAttempts
            /\ nAttempts' = nAttempts + 1
            /\ conState' = [conState EXCEPT ![nAttempts + 1] = "connecting"]
            /\ ee' = EmitReconnect(ee, TRUE)
    /\ UNCHANGED <<r, conEnded, disconnectCalls, remoteMethods, conWiring, requests>>

\* The part of the Connector's state that disconnect() reads and writes.
CState == [r |-> r, conEnded |-> conEnded, ee |-> ee, cur |-> nAttempts]

\* disconnect(), lines 48-50: r.disconnect() stops the retry loop and, when r is
\* connected, ends the current socket and emits 'disconnect' (line 58).
disconnect(st) ==
    IF st.r.connected
    THEN [st EXCEPT !.r.reconnect = FALSE,
                    !.conEnded[st.cur] = TRUE,
                    !.ee = onDisconnect(st.ee)]
    ELSE [st EXCEPT !.r.reconnect = FALSE]

\* A call of disconnect() on the handle connect() returned.
Disconnect ==
    /\ UNCHANGED listenerVars
    /\ disconnectCalls < MaxDisconnectCalls
    /\ disconnectCalls' = disconnectCalls + 1
    /\ LET n == disconnect(CState)
       IN  /\ r' = n.r
           /\ conEnded' = n.conEnded
           /\ ee' = n.ee
    /\ UNCHANGED <<conState, nAttempts, backoffArmed, remoteMethods, conWiring, requests>>

\* The client proxies the handle has handed out: the payloads of its 'connect'
\* notifications (ee.client holds the latest of them).
Proxies ==
    {ee.emitted[i].payload :
        i \in {j \in 1..Len(ee.emitted) : ee.emitted[j].ev = "connect"}}

\* The socket the rpc stream of proxy p was piped to at lines 29-30.
SocketOf(p) == CHOOSE c \in Attempts : wrap(conWiring[c].mux) = p

\* The program calls a method of a proxy it holds, passing a callback.  The proxy
\* function (line 32) hands the request to its rpc stream, which keeps the
\* callback until a response with the request's id arrives, and emits the
\* request into the pipe of line 29.  Nothing in lines 27-46 looks at the
\* connected flag or at the socket first: the request reaches the peer when the
\* socket is open and has not been ended, and is lost in the pipe otherwise.
InvokeMethod(p) ==
    /\ UNCHANGED listenerVars
    /\ remoteMethods # <<>>
    /\ Len(requests) < MaxCalls
    /\ p \in Proxies
    /\ requests' = Append(requests,
                       [proxy |-> p,
                        connected |-> ee.connected,
                        delivered |-> (conState[SocketOf(p)] = "open"
                                          /\ ~conEnded[SocketOf(p)]),
                        state |-> "pending"])
    /\ UNCHANGED <<r, conState, conEnded, nAttempts, backoffArmed, ee,
                   disconnectCalls, remoteMethods, conWiring>>

\* The peer's response to request i arrives on the socket the request went out
\* on, travels the pipe of line 30 into the rpc stream, and the stream calls the
\* request's callback with the result.  Neither onDisconnect (lines 43-46) nor
\* any other line touches the callbacks of requests still waiting.
Response(i) ==
    /\ UNCHANGED listenerVars
    /\ i \in 1..Len(requests)
    /\ requests[i].state = "pending"
    /\ requests[i].delivered
    /\ conState[SocketOf(requests[i].proxy)] = "open"
    /\ requests' = [requests EXCEPT ![i].state = "answered"]
    /\ UNCHANGED <<r, conState, conEnded, nAttempts, backoffArmed, ee,
                   disconnectCalls, remoteMethods, conWiring>>

ConnectorNext ==
    \/ SocketConnect
    \/ SocketLost
    \/ BackoffReady
    \/ Disconnect
    \/ \E p \in Attempts : InvokeMethod(p)
    \/ \E i \in 1..MaxCalls : Response(i)

\* ========================================================== specifications

\* The method names of the README's example, line 29 of the README.
ReadmeMethods == <<"ping", "pong">>

\* listen() has returned in one process, connect() called as in the README has
\* returned in another.
Init == ListenerInit /\ connect(ReadmeMethods)

\* listen() has returned in one process, connect() with any of the argument
\* lists has returned in another.
InitAnyMethods == ListenerInit /\ ConnectorInit

\* The events of both programs; the Connector's proxies are left uncalled.
Next ==
    \/ ServerError
    \/ onceListening
    \/ \E c \in Conns : onConnection(c)
    \/ \E c \in Conns : SocketClose(c)
    \/ \E c \in Conns : SocketError(c)
    \/ \E withCb \in BOOLEAN : Close(withCb)
    \/ ServerClose
    \/ SocketConnect
    \/ SocketLost
    \/ BackoffReady
    \/ Disconnect

\* Both programs, interleaved.
Spec == Init /\ [][Next]_vars

\* The Listener alone.
SpecListener == Init /\ [][ListenerNext]_vars

\* The Connector alone, with the calls the program makes on its proxies.
SpecConnector == InitAnyMethods /\ [][ConnectorNext]_vars

\* The peer answers an end() with its own close, and the runtime delivers the
\* server's 'close' event once it is due: the liveness the event loop provides.
\* Nothing obliges a peer to close a connection the Listener has not ended, nor
\* a socket to fail.
ListenerFairness ==
    /\ WF_vars(ServerClose)
    /\ \A c \in Conns : WF_vars(SocketClose(c) /\ endCalls[c] > 0)

FairSpecListener == SpecListener /\ ListenerFairness

\* The backoff timer fires once armed, and the peer answers an end() with its
\* own close.  Nothing obliges a peer to accept a connection, to answer a
\* request or to keep a connection open.
ConnectorFairness ==
    /\ WF_vars(BackoffReady)
    /\ WF_vars(SocketLost /\ conEnded[nAttempts])

FairSpecConnector == SpecConnector /\ ConnectorFairness

\* ================================================================== claims

\* Accepted connections whose sockets are open.
OpenConns == {c \in Conns : sock[c] = "open"}

\* Connections of the Connector that are live: the socket has connected, has not
\* been lost and has not been ended by disconnect().
LiveCons == {c \in Attempts : conState[c] = "open" /\ ~conEnded[c]}

\* Connections of the Connector that were established at some point.
Established == {c \in Attempts : conState[c] \in {"open", "closed"}}

\* ---------------------------------------------------------------------- C1
\* C1: the user callback of listen() is invoked exactly once over the life of the
\* server, by the first of the server's 'error' and 'listening' events: with an
\* error when the bind fails first, with no error when listening comes first, and
\* never again on any later event.
C1_CallbackExactlyOnce ==
    [][ /\ Len(cbCalls') <= 1
        /\ (bindState = "pending" /\ bindState' = "failed")
              => (Len(cbCalls') = 1 /\ Arg(cbCalls'[1], 1) = "error")
        /\ (bindState = "pending" /\ bindState' = "listening")
              => (Len(cbCalls') = 1 /\ Arg(cbCalls'[1], 1) = "undefined")
        /\ (bindState # "pending") => (Len(cbCalls) = 1 /\ cbCalls' = cbCalls)
      ]_vars

\* C1 witness: the bind failed first, the callback got the error, and a later
\* 'listening' event has come and gone without a second invocation.
C1_Witness ==
    /\ bindState = "listening"
    /\ Len(cbCalls) = 1
    /\ Arg(cbCalls[1], 1) = "error"

\* ---------------------------------------------------------------------- C2
\* C2: when the bind succeeds the callback is invoked with an absent error and
\* with the server handle as its second argument.
C2_ServerHandlePassed ==
    \A i \in 1..Len(cbCalls) :
        Arg(cbCalls[i], 1) = "undefined" => Arg(cbCalls[i], 2) = "server"

\* ---------------------------------------------------------------------- C3
\* C3: in every reachable state the set of connections in the pool equals the
\* set of accepted connections whose sockets are open.
C3_PoolEqualsOpen == Members(pool) = OpenConns

\* ---------------------------------------------------------------------- C4
\* C4: a Connector handle has at most one live Connection, and its connected
\* flag is true exactly when one Connection is live.
C4_OneLiveIffConnected ==
    /\ Cardinality(LiveCons) <= 1
    /\ ee.connected <=> (Cardinality(LiveCons) = 1)

\* C4 witness: a second Connection is live after the first one was lost.
C4_Witness ==
    /\ ee.connected
    /\ conState[1] = "closed"
    /\ 2 \in LiveCons

\* ---------------------------------------------------------------------- C5
\* C5: whenever the handle's connected flag is false its client field is absent.
C5_ClientDiscarded == ~ee.connected => ee.client = NoClient

\* ---------------------------------------------------------------------- C6
\* C6 as claimed: 'reconnect' is emitted once per successful re-establishment
\* (never for the first connection nor for an attempt that has not succeeded)
\* and carries the fresh client.
C6_ReconnectPerReestablishment ==
    /\ NumEv(ee.emitted, "reconnect") =
          (IF Established = {} THEN 0 ELSE Cardinality(Established) - 1)
    /\ \A i \in 1..Len(ee.emitted) :
          ee.emitted[i].ev = "reconnect" => ee.emitted[i].payload # NoClient

\* C6 as amended: 'connect' is emitted, carrying that connection's own client,
\* for every successful connection, the first and each later one alike;
\* 'reconnect' carries no payload and is emitted once at the start of every
\* attempt after the first, before that attempt has succeeded or failed.
C6_ConnectPerSuccess ==
    /\ NumEv(ee.emitted, "connect") = Cardinality(Established)
    /\ {ee.emitted[i].payload :
           i \in {j \in 1..Len(ee.emitted) : ee.emitted[j].ev = "connect"}}
          = Established
    /\ NumEv(ee.emitted, "reconnect") = nAttempts - 1
    /\ \A i \in 1..Len(ee.emitted) :
          ee.emitted[i].ev = "reconnect" => ee.emitted[i].payload = NoClient

\* C6 witness: two connections were established, each announced by 'connect',
\* and a 'reconnect' was emitted for a retry.
C6_Witness ==
    /\ Cardinality(Established) = 2
    /\ NumEv(ee.emitted, "connect") = 2
    /\ NumEv(ee.emitted, "reconnect") >= 1

\* ---------------------------------------------------------------------- C7
\* C7: once disconnect() has been called no 'connect' notification is emitted.
C7_NoConnectAfterDisconnect ==
    [][disconnectCalls > 0
          => NumEv(ee'.emitted, "connect") = NumEv(ee.emitted, "connect")]_vars

C9_CloseDrains ==
    /\ [](closeCbPending > 0 => <>(closeCbFired > 0))
    /\ \A c \in Conns :
          [](endCalls[c] > 0 => <>(sock[c] = "closed" /\ c \notin Members(pool)))
    /\ [][closeCbFired > 0 => Members(pool') \subseteq Members(pool)]_vars

\* ---------------------------------------------------------------------- C10
\* C10 as claimed: close() ends a pooled connection only after the server's own
\* close has been reported, and ends it exactly once.
C10_EndAfterServerClose ==
    \A c \in Conns :
        /\ endCalls[c] <= 1
        /\ endCalls[c] > 0 => srvCloseReported

\* C10 as amended: each close() call ends, synchronously within the call and
\* exactly once, every connection that is in the pool at the call and no other;
\* nothing else ends a connection; a connection still in the pool is ended before
\* the server's close has been reported, which happens only once no accepted
\* connection is open any more.
C10_EndInsideClose ==
    [][ \A c \in Conns :
          /\ (closeCalls' = closeCalls + 1)
                => /\ endCalls'[c] = endCalls[c] + (IF c \in Members(pool) THEN 1 ELSE 0)
                   /\ c \in Members(pool) => ~srvCloseReported
          /\ (closeCalls' = closeCalls) => endCalls'[c] = endCalls[c]
          /\ (srvCloseReported' /\ ~srvCloseReported) => sock[c] # "open"
      ]_vars

\* C10 witness: a pooled connection has been ended by close() and is still open,
\* while the server's close has not been reported.
C10_Witness ==
    \E c \in Conns :
        /\ c \in Members(pool)
        /\ endCalls[c] = 1
        /\ sock[c] = "open"
        /\ ~srvCloseReported

\* --------------------------------------------------------------------- C11
\* Request i reached the peer, no response has come, and the socket it went out
\* on has closed.
InFlightLost(i) ==
    /\ i <= Len(requests)
    /\ requests[i].state = "pending"
    /\ requests[i].delivered
    /\ conState[SocketOf(requests[i].proxy)] = "closed"

\* C11: a call that is in flight when its Connection closes eventually resolves
\* with a connection-lost error; none stays pending forever.
C11_InFlightCallFails ==
    \A i \in 1..MaxCalls :
        [](InFlightLost(i) => <>(i <= Len(requests) /\ requests[i].state = "failed"))

\* --------------------------------------------------------------------- C12
\* C12: a method called on a proxy while the handle's connected flag is false
\* fails with an error, and its request is never delivered to the peer.
C12_CallWhileDisconnectedFails ==
    \A i \in 1..Len(requests) :
        ~requests[i].connected
           => (requests[i].state = "failed" /\ ~requests[i].delivered)

\* --------------------------------------------------------------------- C13
\* C13: connect() validates its arguments before it starts connecting: with an
\* empty remoteMethods no connection attempt is ever started.
C13_ArgumentsValidated ==
    remoteMethods = <<>>
        => (nAttempts = 0 /\ \A c \in Attempts : conState[c] = "unused")

\* --------------------------------------------------------------------- C14
\* The step in which the current attempt fails before it has connected.
AttemptFails ==
    conState[nAttempts] = "connecting" /\ conState'[nAttempts] = "failed"

\* The step in which the backoff timer fires while a retry is wanted.
RetryDue ==
    backoffArmed /\ ~backoffArmed' /\ r.reconnect /\ ~r.connected

\* C14 as claimed: a failed connection attempt keeps connected false, emits no
\* 'disconnect' notification, surfaces no error on the handle, and is followed
\* by another attempt unless disconnect() was requested.
C14_FailedAttemptSilent ==
    [][ /\ AttemptFails
           => /\ ~ee'.connected
              /\ NumEv(ee'.emitted, "disconnect") = NumEv(ee.emitted, "disconnect")
              /\ NumEv(ee'.emitted, "error") = 0
              /\ backoffArmed' = r.reconnect
        /\ RetryDue
           => (nAttempts' = nAttempts + 1 /\ conState'[nAttempts'] = "connecting")
      ]_vars

\* C14 as amended: a failed connection attempt keeps connected false, surfaces
\* no error on the handle and emits exactly one 'disconnect' notification,
\* delivered with connected false; the backoff timer is started unless
\* disconnect() was requested, and when it fires another attempt starts.
C14_FailedAttemptAnnounced ==
    [][ /\ AttemptFails
           => /\ ~ee.connected
              /\ ~ee'.connected
              /\ ee'.client = ee.client
              /\ ee'.emitted = Append(ee.emitted,
                                      Notification("disconnect", NoClient, ee'))
              /\ NumEv(ee'.emitted, "error") = 0
              /\ backoffArmed' = r.reconnect
        /\ RetryDue
           => (nAttempts' = nAttempts + 1 /\ conState'[nAttempts'] = "connecting")
      ]_vars

\* C14 witness: the first attempt failed before any connection was established,
\* its 'disconnect' was emitted, and the second attempt is under way.
C14_Witness ==
    /\ conState[1] = "failed"
    /\ conState[2] = "connecting"
    /\ Established = {}
    /\ NumEv(ee.emitted, "disconnect") = 1

\* --------------------------------------------------------------------- C15
\* C15: an error on one accepted connection is confined to that connection: it
\* raises no unhandled fault, and every other connection that is open stays in
\* the pool.
C15_ErrorConfined ==
    \A c \in Conns :
        sock[c] = "errored"
           => /\ ~crashed
              /\ \A d \in Conns \ {c} : sock[d] = "open" => d \in Members(pool)

\* --------------------------------------------------------------------- C16
\* An array without its entries equal to c, the others kept in their order.
Without(p, c) == SelectSeq(p, LAMBDA x : x # c)

\* In the current state no connection is in the pool twice, and the close
\* handler of any connection, were it to run now, would remove exactly that
\* connection, or nothing when the connection is not in the pool.
PoolHandlersExact ==
    \A c \in Conns :
        /\ Occurrences(pool, c) <= 1
        /\ rpcConnectionClosed(pool, c) = Without(pool, c)
        /\ c \notin Members(pool) => rpcConnectionClosed(pool, c) = pool

\* C16: under every interleaving of accepts, socket closes and close() calls the
\* pool never holds a connection twice; a connection's close handler runs at
\* most once, a connection leaves the pool only in the step that runs its
\* handler, that step removes exactly that connection and keeps the others, and
\* the handler changes nothing when the connection is absent.
C16_PoolRemovalExact ==
    [][ /\ PoolHandlersExact
        /\ PoolHandlersExact'
        /\ \A c \in Conns :
              /\ (sock[c] # "none" /\ ~closeHandler[c]) => ~closeHandler'[c]
              /\ (c \in Members(pool) /\ c \notin Members(pool'))
                    => /\ closeHandler[c]
                       /\ ~closeHandler'[c]
                       /\ pool' = Without(pool, c)
      ]_vars

\* C16 witness: close() has been called, one connection has closed, its handler
\* has run and it has left the pool, while another connection is still in it.
C16_Witness ==
    \E c \in Conns : \E d \in Conns \ {c} :
        /\ closeCalls > 0
        /\ sock[c] = "closed"
        /\ c \notin Members(pool)
        /\ ~closeHandler[c]
        /\ d \in Members(pool)

\* --------------------------------------------------------------------- C17
\* C17: once the socket of an accepted connection has reported end-of-stream or
\* an error, the streams piped to it eventually end and the connection leaves
\* the pool, and no exception is thrown from the event's callbacks.
C17_StagesUnwind ==
    \A c \in Conns :
        /\ [](sock[c] \in {"closed", "errored"}
                 => <>(stagesEnded[c] /\ c \notin Members(pool)))
        /\ [](sock[c] = "errored" => ~crashed)

\* --------------------------------------------------------------------- C18
\* Accepted connections, whatever has become of their sockets since.
Accepted == {c \in Conns : sock[c] # "none"}

\* The positions of the 'connect' notifications in the handle's log.
ConnectEvents == {i \in 1..Len(ee.emitted) : ee.emitted[i].ev = "connect"}

\* The streams w were all created, and none of them is piped to a connection
\* in ws already.
FreshStreams(w, ws) ==
    /\ w.mux # 0 /\ w.decode # 0 /\ w.encode # 0
    /\ \A d \in DOMAIN ws :
          /\ ws[d].mux # w.mux
          /\ ws[d].decode # w.decode
          /\ ws[d].encode # w.encode

\* C18: the step that accepts a connection on the Listener, or establishes one
\* on the Connector, pipes to it an rpc stream, a decode stream and an encode
\* stream that are piped to no other socket, and streams once piped to a socket
\* are never piped to another; the 'connect' notification of that step carries
\* the proxy wrapped from the new rpc stream, which no earlier notification
\* carried, and no other step hands out a proxy.
C18_OwnStreamsPerConnection ==
    [][ /\ \A c \in Conns :
              /\ wiring[c] # NoWiring => wiring'[c] = wiring[c]
              /\ (c \in Accepted) <=> (wiring[c] # NoWiring)
              /\ (c \notin Accepted /\ c \in Accepted')
                    => FreshStreams(wiring'[c], wiring)
        /\ \A c \in Attempts :
              /\ conWiring[c] # NoWiring => conWiring'[c] = conWiring[c]
              /\ (c \in Established) <=> (conWiring[c] # NoWiring)
              /\ (c \notin Established /\ c \in Established')
                    => /\ FreshStreams(conWiring'[c], conWiring)
                       /\ ee'.emitted =
                             Append(ee.emitted,
                                    Notification("connect",
                                                 wrap(conWiring'[c].mux), ee'))
                       /\ wrap(conWiring'[c].mux) \notin Proxies
        /\ Established' = Established => Proxies' = Proxies
      ]_vars

\* C18 witness: the Listener has accepted two connections and the Connector has
\* established its second one, each announced with its own proxy.
C18_Witness ==
    /\ Cardinality(Accepted) = 2
    /\ Cardinality(Established) = 2
    /\ Cardinality(ConnectEvents) = 2

\* --------------------------------------------------------------------- C19
\* C19: the handle's state is updated before the notification is delivered.  A
\* listener of 'connect' reads connected = true and a client field that is the
\* very proxy it was passed; a listener of 'disconnect' reads connected = false.
C19_StateBeforeNotify ==
    \A i \in 1..Len(ee.emitted) :
        LET n == ee.emitted[i]
        IN  /\ n.ev = "connect"
                 => (n.connected /\ n.payload # NoClient /\ n.client = n.payload)
            /\ n.ev = "disconnect" => ~n.connected

\* C19 witness: a connection was announced, lost and announced as lost, and a
\* second connection has been announced after it.
C19_Witness ==
    \E i \in ConnectEvents : \E j \in ConnectEvents :
        \E k \in 1..Len(ee.emitted) :
            /\ i < k
            /\ k < j
            /\ ee.emitted[k].ev = "disconnect"
            /\ ee.emitted[i].payload # ee.emitted[j].payload

=============================================================================
